---------------------------- MODULE Spec2Model ----------------------------
(***************************************************************************)
(* Model of the point-management backend in src/main.py: five tables held  *)
(* by the storage layer, the read handlers, and the two redemption         *)
(* handlers (fixed-price redeem_points_legacy, flexible-amount use_points).*)
(*                                                                         *)
(* Spec    : requests are served one at a time; every action is one whole  *)
(*           handler, from the acquisition of its session to its response. *)
(* SpecTxn : requests run side by side, each in its own session; a         *)
(*           redemption is split at the statements of its flush, at its    *)
(*           COMMIT and at the reload of the balance, and may fail at any  *)
(*           of these points.                                              *)
(***************************************************************************)
EXTENDS Integers, Sequences, FiniteSets, TLC

VARIABLES
    db,        \* committed contents of the five tables
    now,       \* the UTC clock (datetime.utcnow), in whole ticks
    tz,        \* offset of the server's local clock (datetime.now) from UTC
    response,  \* the route served and its response, until it has gone out (Spec)
    sess,      \* per worker: the request in flight and its session (SpecTxn)
    reply      \* per worker: the response on its way to the client (SpecTxn)

vars == <<db, now, tz, response, sess, reply>>

(***************************************************************************)
(* Bounds of the model.                                                    *)
(***************************************************************************)
\* most rows the redemption handlers may add to each audit table
MaxRows == 1
\* last tick of the clock
MaxClock == 6

\* Python's None (an absent Optional[str]; a NULL column)
None == "None"
\* an Optional[int]: <<>> is None, <<n>> is n
NoInt == <<>>
Some(n) == <<n>>

\* ids a request may name: users 1 and 2 have a balance row, user 3 has none
ReqUserIds == 1..3
\* 1 and 2 are catalog items, 3 is not
ReqItemIds == 1..3
\* `points` of a UsePointsRequest: any int is accepted (main.py:60)
ReqPoints == {-1, 0, 2, 4}
\* `limit` of the history listing as the handler receives it
ReqLimits == {NoInt, Some(0), Some(2), Some(-1)}
ReqFilters == {None, "all", "earned", "used"}
\* offsets of datetime.now() from datetime.utcnow()
UtcOffsets == {0, 9}

(***************************************************************************)
(* Rows of the tables (main.py:74-115).                                    *)
(***************************************************************************)
User(id, name, company_name) ==
    [id |-> id, name |-> name, company_name |-> company_name]

UserBalance(id, user_id, current_points, scheduled_points, expiring_points, updated_at) ==
    [id |-> id, user_id |-> user_id, current_points |-> current_points,
     scheduled_points |-> scheduled_points, expiring_points |-> expiring_points,
     updated_at |-> updated_at]

PointHistory(id, user_id, date, description, points, remarks) ==
    [id |-> id, user_id |-> user_id, date |-> date, description |-> description,
     points |-> points, remarks |-> remarks]

RedeemableItem(id, name, points_required) ==
    [id |-> id, name |-> name, points_required |-> points_required]

RedemptionHistory(id, user_id, item_id, date, points_spent) ==
    [id |-> id, user_id |-> user_id, item_id |-> item_id, date |-> date,
     points_spent |-> points_spent]

(***************************************************************************)
(* Seed data: the rows the tables hold before the API serves anything.     *)
(* Users, balances, the catalog and earlier history are managed out of     *)
(* band.                                                                   *)
(***************************************************************************)
SeedUsers ==
    << User(1, "sato", "acme"), User(2, "suzuki", "acme"), User(3, "tanaka", "init") >>

SeedBalances ==
    << UserBalance(1, 1, 2, 4, 1, 0), UserBalance(2, 2, 0, 0, 2, 0) >>

SeedItems ==
    << RedeemableItem(1, "coffee", 1), RedeemableItem(2, "towel", 2) >>

\* earlier ledger lines: earned (> 0), used (< 0) and zero ones, of both
\* users, with equal dates among them and dates not in id order
SeedLedger ==
    << PointHistory(1, 1, 1, "welcome", 10, None),
       PointHistory(2, 1, 0, "lunch", -5, None),
       PointHistory(3, 2, 2, "welcome", 7, None),
       PointHistory(4, 1, 2, "bonus", 20, "campaign"),
       PointHistory(5, 1, 4, "snack", -3, None),
       PointHistory(6, 1, 4, "adjust", 0, None),
       PointHistory(7, 1, 5, "pen", -2, None) >>

\* how many of them the ledger holds at the start
SeedLengths == {0, 7}

(***************************************************************************)
(* Queries.  query.filter(...) over a table is SelectSeq.                  *)
(***************************************************************************)
\* every arrangement of the members of S in a row
RECURSIVE Arrangements(_)
Arrangements(S) ==
    IF S = {} THEN {<<>>}
    ELSE UNION {{<<x>> \o rest : rest \in Arrangements(S \ {x})} : x \in S}

\* the positions of `rows`, the latest date first
ByDateDesc(rows) ==
    SortSeq([k \in DOMAIN rows |-> k], LAMBDA i, j : rows[i].date > rows[j].date)

\* how many positions at the head of `order` hold rows of one date
RECURSIVE SameDate(_, _, _)
SameDate(rows, order, n) ==
    IF n < Len(order) /\ rows[order[n + 1]].date = rows[order[1]].date
    THEN SameDate(rows, order, n + 1) ELSE n

\* every order that is descending by date: the rows of one date come in
\* any order
RECURSIVE DescendingOrders(_, _)
DescendingOrders(rows, order) ==
    IF order = <<>> THEN {<<>>}
    ELSE LET n == SameDate(rows, order, 1)
         IN  {first \o rest : first \in Arrangements({order[k] : k \in 1..n}),
                              rest \in DescendingOrders(rows, SubSeq(order, n + 1, Len(order)))}

\* .order_by(desc(PointHistory.date)): the results the database may give
OrderByDateDesc(rows) ==
    {[k \in DOMAIN order |-> rows[order[k]]] :
        order \in DescendingOrders(rows, ByDateDesc(rows))}

\* (mutant of Limit: one row too many)
LimitPlusOne(rows, n) == SubSeq(rows, 1, IF n + 1 < Len(rows) THEN n + 1 ELSE Len(rows))

\* .limit(n): the first n rows
Limit(rows, n) == SubSeq(rows, 1, IF n < Len(rows) THEN n ELSE Len(rows))

Range(s) == {s[k] : k \in DOMAIN s}

(***************************************************************************)
(* Responses.                                                              *)
(***************************************************************************)
HTTPException(status_code, detail) == [status |-> status_code, detail |-> detail]
Ok(body) == [status |-> 200, body |-> body]
\* what a handler yields: the tables it leaves and its response
Outcome(d, r) == [db |-> d, response |-> r]

(***************************************************************************)
(* Lookups shared by the handlers.                                         *)
(***************************************************************************)
\* db.query(User).filter(User.id == user_id)
UserById(d, user_id) == SelectSeq(d.users, LAMBDA u : u.id = user_id)

\* db.query(UserBalance).filter(UserBalance.user_id == user_id)
BalanceOf(d, user_id) == SelectSeq(d.user_balance, LAMBDA b : b.user_id = user_id)

\* (mutant of ItemById: the filter on the id left out)
ItemByIdUnfiltered(d, item_id) == d.redeemable_items

\* db.query(RedeemableItem).filter(RedeemableItem.id == item_id)
ItemById(d, item_id) == SelectSeq(d.redeemable_items, LAMBDA i : i.id = item_id)

\* db.query(PointHistory).filter(PointHistory.user_id == user_id)
HistoryOf(d, user_id) == SelectSeq(d.point_history, LAMBDA h : h.user_id = user_id)

(***************************************************************************)
(* Read handlers.                                                          *)
(***************************************************************************)
\* GET /
read_root(d) == Outcome(d, Ok([message |-> "Welcome to the Point Management System API!"]))

UserResponse(u) == [id |-> u.id, name |-> u.name, company_name |-> u.company_name]

\* GET /users
get_users(d) ==
    Outcome(d, Ok([k \in DOMAIN d.users |-> UserResponse(d.users[k])]))

\* GET /users/{user_id}
get_user(d, user_id) ==
    LET found == UserById(d, user_id)
    IN  IF found = <<>>
        THEN Outcome(d, HTTPException(404, "User not found"))
        ELSE Outcome(d, Ok(UserResponse(Head(found))))

\* (mutant of BalanceResponse: scheduled_points counted into the points shown)
BalanceResponseWithScheduled(user_id, balance) ==
    [user_id |-> user_id,
     current_points |-> balance.current_points + balance.scheduled_points,
     expiring_points |-> balance.expiring_points]

\* the dict get_user_balance returns, shaped by BalanceResponse
BalanceResponse(user_id, balance) ==
    [user_id |-> user_id,
     current_points |-> balance.current_points,
     expiring_points |-> balance.expiring_points]

\* GET /users/{user_id}/balance
get_user_balance(d, user_id) ==
    LET found == BalanceOf(d, user_id)
    IN  IF found = <<>>
        THEN Outcome(d, HTTPException(404, "User not found"))
        ELSE Outcome(d, Ok(BalanceResponse(user_id, Head(found))))

\* GET /users/{user_id}/points/history: no ORDER BY; the rows come as the
\* index on user_id yields them, in id order
get_point_history_legacy(d, user_id) ==
    LET history == HistoryOf(d, user_id)
    IN  Outcome(d, Ok([k \in DOMAIN history |->
                        [date |-> history[k].date,
                         description |-> history[k].description,
                         points |-> history[k].points]]))

PointHistoryResponse(h) ==
    [id |-> h.id, date |-> h.date, description |-> h.description,
     points |-> h.points, remarks |-> h.remarks]

\* (mutant of Earned: zero counted as earned)
EarnedOrZero(h) == h.points >= 0

\* query.filter(PointHistory.points > 0)
Earned(h) == h.points > 0
\* query.filter(PointHistory.points < 0)
Used(h) == h.points < 0

\* the rows left by the filter_type branch
FilterByType(rows, filter_type) ==
    IF filter_type = "earned" THEN SelectSeq(rows, Earned)
    ELSE IF filter_type = "used" THEN SelectSeq(rows, Used)
    ELSE rows

\* `if limit:` -- None and 0 are falsy
Truthy(limit) == limit # NoInt /\ limit[1] # 0

\* GET /users/{user_id}/point-history: the outcomes the query may give (one
\* for each order of the rows with equal dates).  A negative LIMIT is
\* refused by the database and the request fails.
get_point_history(d, user_id, limit, filter_type) ==
    LET rows == FilterByType(HistoryOf(d, user_id), filter_type)
    IN  IF Truthy(limit) /\ limit[1] < 0
        THEN {Outcome(d, HTTPException(500, "Internal Server Error"))}
        ELSE {Outcome(d, Ok([k \in DOMAIN history |-> PointHistoryResponse(history[k])])) :
                history \in {IF Truthy(limit) THEN Limit(ordered, limit[1]) ELSE ordered :
                               ordered \in OrderByDateDesc(rows)}}

\* Query(5): the limit the handler receives when the request carries none
DefaultLimit == 5

RedeemableItemResponse(i) == [id |-> i.id, name |-> i.name, points_required |-> i.points_required]

\* GET /redeemable-items
get_redeemable_items(d) ==
    Outcome(d, Ok([k \in DOMAIN d.redeemable_items |->
                    RedeemableItemResponse(d.redeemable_items[k])]))

(***************************************************************************)
(* The unit of work of a redemption: the statements the session flushes    *)
(* at db.commit().                                                         *)
(***************************************************************************)
\* (mutants of NotEnough: the bound taken strictly; the comparison reversed)
NotEnoughOrEqual(current_points, amount) == current_points <= amount
NotEnoughReversed(current_points, amount) == current_points > amount

\* `if balance.current_points < amount: raise HTTPException(400, ...)`
NotEnough(current_points, amount) == current_points < amount

\* `balance.current_points -= amount`: the value the session holds for the
\* attribute, computed from the value it read
Debit(current_points, amount) == current_points - amount

\* f"{item.name}と交換" ("exchanged for <item.name>")
Description(item) == item.name \o " redeemed"
\* f"アイテム交換: {item.name}" ("item exchange: <item.name>")
Remarks(item) == "Item redemption: " \o item.name

\* UPDATE user_balance SET current_points = .., updated_at = .. WHERE id = ..
\* (the ORM writes the attribute's value; onupdate stamps updated_at)
UpdateBalance(id, current_points, utcnow) ==
    [op |-> "update_balance", id |-> id, current_points |-> current_points,
     updated_at |-> utcnow]

\* INSERT INTO redemption_history (date defaults to datetime.utcnow); the id
\* is 0 until the database assigns it
InsertRedemption(user_id, item_id, points_spent, utcnow) ==
    [op |-> "insert_redemption", id |-> 0, user_id |-> user_id, item_id |-> item_id,
     date |-> utcnow, points_spent |-> points_spent]

\* INSERT INTO point_history
InsertHistory(user_id, date, description, points, remarks) ==
    [op |-> "insert_history", id |-> 0, user_id |-> user_id, date |-> date,
     description |-> description, points |-> points, remarks |-> remarks]

\* the statements of the flush: the UPDATE is emitted only when the
\* attribute's value differs from the one loaded
UnitOfWork(balance, new_points, redemption, history, utcnow) ==
    (IF new_points # balance.current_points
     THEN {UpdateBalance(balance.id, new_points, utcnow)} ELSE {})
    \cup {redemption, history}

\* what the fixed-price handler adds to its session (main.py:251-264)
LegacyUnit(user_id, item_id, item, balance, utcnow) ==
    UnitOfWork(balance,
               Debit(balance.current_points, item.points_required),
               InsertRedemption(user_id, item_id, item.points_required, utcnow),
               InsertHistory(user_id, utcnow, Description(item),
                             -item.points_required, None),
               utcnow)

\* (mutant of UsePointsUnit: the item's price is debited and recorded)
UsePointsUnitAtPrice(request, item, balance, utcnow, localnow) ==
    UnitOfWork(balance,
               Debit(balance.current_points, item.points_required),
               InsertRedemption(request.user_id, request.item_id, item.points_required, utcnow),
               InsertHistory(request.user_id, localnow, Description(item),
                             -item.points_required, Remarks(item)),
               utcnow)

\* what the flexible-amount handler adds to its session (main.py:289-308);
\* the history line is dated datetime.now(), the server's local time
UsePointsUnit(request, item, balance, utcnow, localnow) ==
    UnitOfWork(balance,
               Debit(balance.current_points, request.points),
               InsertRedemption(request.user_id, request.item_id, request.points, utcnow),
               InsertHistory(request.user_id, localnow, Description(item),
                             -request.points, Remarks(item)),
               utcnow)

\* an INSERT as the database executes it: it takes the table's next
\* AUTO_INCREMENT id
Stamp(d, stmt) ==
    IF stmt.op = "insert_redemption" THEN [stmt EXCEPT !.id = d.next_id.redemption_history]
    ELSE IF stmt.op = "insert_history" THEN [stmt EXCEPT !.id = d.next_id.point_history]
    ELSE stmt

\* the AUTO_INCREMENT counter moves on when the INSERT is executed, whether
\* or not its transaction commits later
Allocate(d, stmt) ==
    IF stmt.op = "insert_redemption" THEN [d EXCEPT !.next_id.redemption_history = @ + 1]
    ELSE IF stmt.op = "insert_history" THEN [d EXCEPT !.next_id.point_history = @ + 1]
    ELSE d

\* (mutant of InsertById: the new row takes the place of the last one)
InsertByIdOverwrite(rows, row) ==
    IF rows = <<>> THEN <<row>> ELSE [rows EXCEPT ![Len(rows)] = row]

\* a table with one more row, in the order of the primary key
InsertById(rows, row) ==
    SelectSeq(rows, LAMBDA r : r.id < row.id) \o <<row>> \o SelectSeq(rows, LAMBDA r : r.id > row.id)

\* (mutant of Apply: the UPDATE has lost its WHERE clause)
ApplyToAllRows(d, stmt) ==
    IF stmt.op = "update_balance"
    THEN [d EXCEPT !.user_balance =
            [k \in DOMAIN @ |->
               [@[k] EXCEPT !.current_points = stmt.current_points,
                            !.updated_at = stmt.updated_at]]]
    ELSE IF stmt.op = "insert_redemption"
    THEN [d EXCEPT !.redemption_history =
            InsertById(@, RedemptionHistory(stmt.id, stmt.user_id, stmt.item_id,
                                            stmt.date, stmt.points_spent))]
    ELSE [d EXCEPT !.point_history =
            InsertById(@, PointHistory(stmt.id, stmt.user_id, stmt.date,
                                       stmt.description, stmt.points, stmt.remarks))]

\* the effect of one executed statement on the rows
Apply(d, stmt) ==
    IF stmt.op = "update_balance"
    THEN [d EXCEPT !.user_balance =
            [k \in DOMAIN @ |->
               IF @[k].id = stmt.id
               THEN [@[k] EXCEPT !.current_points = stmt.current_points,
                                 !.updated_at = stmt.updated_at]
               ELSE @[k]]]
    ELSE IF stmt.op = "insert_redemption"
    THEN [d EXCEPT !.redemption_history =
            InsertById(@, RedemptionHistory(stmt.id, stmt.user_id, stmt.item_id,
                                            stmt.date, stmt.points_spent))]
    ELSE [d EXCEPT !.point_history =
            InsertById(@, PointHistory(stmt.id, stmt.user_id, stmt.date,
                                       stmt.description, stmt.points, stmt.remarks))]

\* the effects of a set of executed statements (they touch different rows,
\* so their order does not matter to the result)
RECURSIVE ApplyAll(_, _)
ApplyAll(d, stmts) ==
    IF stmts = {} THEN d
    ELSE LET stmt == CHOOSE x \in stmts : TRUE
         IN  ApplyAll(Apply(d, stmt), stmts \ {stmt})

\* one statement executed and committed
Execute(d, stmt) == Apply(Allocate(d, stmt), Stamp(d, stmt))

\* db.commit() of a session nobody interleaves with: the unit is flushed,
\* statement by statement, and committed
RECURSIVE ExecuteAll(_, _)
ExecuteAll(d, unit) ==
    IF unit = {} THEN d
    ELSE LET stmt == CHOOSE x \in unit : TRUE
         IN  ExecuteAll(Execute(d, stmt), unit \ {stmt})

\* (mutant of Refreshed: the value loaded before the debit)
RefreshedStale(d, balance) == balance.current_points

\* `balance.current_points` read after db.commit(): the commit expired the
\* object, so the attribute is loaded again from the row
Refreshed(d, balance) ==
    Head(SelectSeq(d.user_balance, LAMBDA b : b.id = balance.id)).current_points

\* the dict redeem_points_legacy returns (main.py:269)
LegacyResponse(new_balance) == [message |-> "redeemed", new_balance |-> new_balance]

\* the dict use_points returns (main.py:313-317)
UsePointsResponse(remaining_points) ==
    [success |-> TRUE, message |-> "redeemed", remaining_points |-> remaining_points]

(***************************************************************************)
(* Redemption handlers, served without interleaving.                       *)
(***************************************************************************)
\* POST /users/{user_id}/redeem/{item_id}
redeem_points_legacy(d, user_id, item_id, utcnow) ==
    LET items == ItemById(d, item_id)
        balances == BalanceOf(d, user_id)
    IN  IF items = <<>>
        THEN Outcome(d, HTTPException(404, "Item not found"))
        ELSE IF balances = <<>>
        THEN Outcome(d, HTTPException(404, "User not found"))
        ELSE IF NotEnough(Head(balances).current_points, Head(items).points_required)
        THEN Outcome(d, HTTPException(400, "Not enough points"))
        ELSE LET after == ExecuteAll(d, LegacyUnit(user_id, item_id, Head(items),
                                                   Head(balances), utcnow))
             IN  Outcome(after, Ok(LegacyResponse(Refreshed(after, Head(balances)))))

UsePointsRequest(user_id, item_id, points) ==
    [user_id |-> user_id, item_id |-> item_id, points |-> points]

\* (mutant of use_points: the balance is looked up and checked before the
\* item)
use_points_balance_first(d, request, utcnow, localnow) ==
    LET items == ItemById(d, request.item_id)
        balances == BalanceOf(d, request.user_id)
    IN  IF balances = <<>>
        THEN Outcome(d, HTTPException(404, "User not found"))
        ELSE IF NotEnough(Head(balances).current_points, request.points)
        THEN Outcome(d, HTTPException(400, "Not enough points"))
        ELSE IF items = <<>>
        THEN Outcome(d, HTTPException(404, "Item not found"))
        ELSE LET after == ExecuteAll(d, UsePointsUnit(request, Head(items),
                                                      Head(balances), utcnow, localnow))
             IN  Outcome(after, Ok(UsePointsResponse(Refreshed(after, Head(balances)))))

\* POST /use-points
use_points(d, request, utcnow, localnow) ==
    LET items == ItemById(d, request.item_id)
        balances == BalanceOf(d, request.user_id)
    IN  IF items = <<>>
        THEN Outcome(d, HTTPException(404, "Item not found"))
        ELSE IF balances = <<>>
        THEN Outcome(d, HTTPException(404, "User not found"))
        ELSE IF NotEnough(Head(balances).current_points, request.points)
        THEN Outcome(d, HTTPException(400, "Not enough points"))
        ELSE LET after == ExecuteAll(d, UsePointsUnit(request, Head(items),
                                                      Head(balances), utcnow, localnow))
             IN  Outcome(after, Ok(UsePointsResponse(Refreshed(after, Head(balances)))))

(***************************************************************************)
(* Spec: the API served one request at a time.                             *)
(***************************************************************************)
\* the tables with the first n seed ledger lines
SeedDb(n) ==
    [users |-> SeedUsers,
     user_balance |-> SeedBalances,
     redeemable_items |-> SeedItems,
     point_history |-> SubSeq(SeedLedger, 1, n),
     redemption_history |-> <<>>,
     next_id |-> [point_history |-> n + 1, redemption_history |-> 1]]

\* the clock when the API starts
StartClock == 5

NoResponse == [route |-> "", result |-> [status |-> 0]]
\* the workers that serve requests side by side
Workers == {1, 2}
\* a worker without a request: no session is open
Idle == [pc |-> "idle", route |-> "", balance |-> <<>>, pending |-> {}, flushed |-> {}]
\* a worker whose last response has gone out
NoReply == [route |-> "", user_id |-> 0, result |-> [status |-> 0]]

Init ==
    /\ \E n \in SeedLengths : db = SeedDb(n)
    /\ now = StartClock
    /\ tz \in UtcOffsets
    /\ response = NoResponse
    /\ sess = [w \in Workers |-> Idle]
    /\ reply = [w \in Workers |-> NoReply]

\* the API takes a request when the response of the one before it has gone
\* out; the handler's outcome becomes the new state (the audit tables stay
\* within the model's bound)
Serve(route, outcome) ==
    /\ response = NoResponse
    /\ Len(outcome.db.redemption_history) <= MaxRows
    /\ db' = outcome.db
    /\ response' = [route |-> route, result |-> outcome.response]
    /\ UNCHANGED <<tz, sess, reply>>

\* the clock values a writing request may see: time stands still or has
\* moved on since the last write
Ticks == {t \in {now, now + 1} : t <= MaxClock}

\* the clock is observed through the dates written: it is advanced to the
\* time of the request when the request wrote
Clock(t) == now' = IF db' = db THEN now ELSE t

ReadRoot ==
    /\ Serve("/", read_root(db))
    /\ UNCHANGED now

GetUsers ==
    /\ Serve("/users", get_users(db))
    /\ UNCHANGED now

GetUser ==
    /\ \E user_id \in ReqUserIds : Serve("/users/{user_id}", get_user(db, user_id))
    /\ UNCHANGED now

GetUserBalance ==
    /\ \E user_id \in ReqUserIds : Serve("/users/{user_id}/balance", get_user_balance(db, user_id))
    /\ UNCHANGED now

GetPointHistoryLegacy ==
    /\ \E user_id \in ReqUserIds : Serve("/users/{user_id}/points/history", get_point_history_legacy(db, user_id))
    /\ UNCHANGED now

\* a request without `limit` reaches the handler with the default
GetPointHistory ==
    /\ \E user_id \in ReqUserIds, limit \in ReqLimits \cup {Some(DefaultLimit)},
          filter_type \in ReqFilters :
          \E outcome \in get_point_history(db, user_id, limit, filter_type) :
              Serve("/users/{user_id}/point-history", outcome)
    /\ UNCHANGED now

GetRedeemableItems ==
    /\ Serve("/redeemable-items", get_redeemable_items(db))
    /\ UNCHANGED now

RedeemPointsLegacy ==
    \E user_id \in ReqUserIds, item_id \in ReqItemIds, t \in Ticks :
        /\ Serve("/users/{user_id}/redeem/{item_id}", redeem_points_legacy(db, user_id, item_id, t))
        /\ Clock(t)

UsePoints ==
    \E user_id \in ReqUserIds, item_id \in ReqItemIds, points \in ReqPoints, t \in Ticks :
        /\ Serve("/use-points", use_points(db, UsePointsRequest(user_id, item_id, points), t, t + tz))
        /\ Clock(t)

\* the response goes out to the client
Deliver ==
    /\ response # NoResponse
    /\ response' = NoResponse
    /\ UNCHANGED <<db, now, tz, sess, reply>>

Next ==
    \/ Deliver
    \/ ReadRoot
    \/ GetUsers
    \/ GetUser
    \/ GetUserBalance
    \/ GetPointHistoryLegacy
    \/ GetPointHistory
    \/ GetRedeemableItems
    \/ RedeemPointsLegacy
    \/ UsePoints

Spec == Init /\ [][Next]_vars

(***************************************************************************)
(* SpecTxn: requests served side by side.  Each request has a session of   *)
(* its own (get_db); a redemption is split at the statements of its flush, *)
(* at its COMMIT and at the reload of the balance for the response, and    *)
(* may fail at each of these points.                                       *)
(***************************************************************************)
\* most ids the redemptions may take in each audit table
MaxCommits == 2

\* the requests the workers receive: user 1 has points, user 2 has none and
\* user 3 no balance row; item 1 is in the catalog, item 3 is not
TxnUserIds == 1..3
TxnItemIds == {1, 3}
TxnPoints == {0, 2}

\* the tables as the workers find them: no earlier ledger lines
TxnDb == SeedDb(0)

\* the server's clock is UTC
InitTxn ==
    /\ Init
    /\ db = TxnDb
    /\ tz = 0

\* (mutant of Visible: the statements other sessions flushed are read
\* before they are committed)
VisibleDirty(w) == ApplyAll(db, UNION {sess[v].flushed : v \in Workers \ {w}})

\* the rows a query of worker w's session reads: the committed ones (the
\* engine is created with the storage's default isolation level, under
\* which no session reads what another has not committed)
Visible(w) == db

\* (mutant of Close: what was flushed stays)
CloseCommits(d, s) == ApplyAll(d, s.flushed)

\* db.close() in the finally of get_db: the connection goes back to the
\* pool and what the session flushed without committing is rolled back
Close(d, s) == d

\* (mutant of Answer: the worker keeps the session's objects for its next
\* request)
AnswerKeepsSession(w, user_id, result) ==
    /\ reply' = [reply EXCEPT ![w] = [route |-> sess[w].route, user_id |-> user_id,
                                      result |-> result]]
    /\ sess' = [sess EXCEPT ![w].pc = "idle"]

\* the response of worker w's request goes on its way, its session is closed
Answer(w, user_id, result) ==
    /\ reply' = [reply EXCEPT ![w] = [route |-> sess[w].route, user_id |-> user_id,
                                      result |-> result]]
    /\ sess' = [sess EXCEPT ![w] = Idle]

\* a worker takes a request when the response of its last one has gone out
Free(w) == sess[w].pc = "idle" /\ reply[w] = NoReply

\* ids taken so far in the audit table that gave out more of them, and one
\* for every session that has an INSERT yet to flush
Started ==
    LET taken == <<db.next_id.redemption_history - TxnDb.next_id.redemption_history,
                   db.next_id.point_history - TxnDb.next_id.point_history>>
    IN  (IF taken[1] > taken[2] THEN taken[1] ELSE taken[2])
        + Cardinality({w \in Workers : \E stmt \in sess[w].pending : stmt.op # "update_balance"})

\* GET /users/{user_id}/balance on a session of its own
TxnGetUserBalance(w) ==
    /\ Free(w)
    /\ \E user_id \in TxnUserIds :
         reply' = [reply EXCEPT ![w] =
                     [route |-> "/users/{user_id}/balance", user_id |-> user_id,
                      result |-> get_user_balance(Visible(w), user_id).response]]
    /\ UNCHANGED <<db, now, tz, response, sess>>

\* GET /users/{user_id}/point-history?limit=0 on a session of its own
TxnGetPointHistory(w) ==
    /\ Free(w)
    /\ \E user_id \in TxnUserIds :
         \E outcome \in get_point_history(Visible(w), user_id, Some(0), None) :
           reply' = [reply EXCEPT ![w] =
                       [route |-> "/users/{user_id}/point-history", user_id |-> user_id,
                        result |-> outcome.response]]
    /\ UNCHANGED <<db, now, tz, response, sess>>

\* a redemption up to db.commit(): both queries and the check; a refusal
\* is answered at once, else the session holds the loaded balance and the
\* unit of work (the requests arrive within one tick of the clock)
TxnQuery(w) ==
    /\ Free(w)
    /\ \E flexible \in BOOLEAN, user_id \in TxnUserIds, item_id \in TxnItemIds,
          points \in TxnPoints :
         LET d == Visible(w)
             t == now
             request == UsePointsRequest(user_id, item_id, points)
             route == IF flexible THEN "/use-points" ELSE "/users/{user_id}/redeem/{item_id}"
             outcome == IF flexible THEN use_points(d, request, t, t + tz)
                        ELSE redeem_points_legacy(d, user_id, item_id, t)
             item == Head(ItemById(d, item_id))
             balance == Head(BalanceOf(d, user_id))
         IN  IF outcome.response.status # 200
             THEN /\ reply' = [reply EXCEPT ![w] = [route |-> route, user_id |-> user_id,
                                                    result |-> outcome.response]]
                  /\ UNCHANGED sess
             ELSE /\ Started < MaxCommits
                  /\ sess' = [sess EXCEPT ![w] =
                                [pc |-> "flush", route |-> route, balance |-> <<balance>>,
                                 pending |-> IF flexible
                                             THEN UsePointsUnit(request, item, balance, t, t + tz)
                                             ELSE LegacyUnit(user_id, item_id, item, balance, t),
                                 flushed |-> {}]]
                  /\ UNCHANGED reply
    /\ UNCHANGED <<db, now, tz, response>>

\* the UPDATE of a row waits while another session holds the row's lock:
\* it has updated the row and not yet committed
Locked(w, stmt) ==
    /\ stmt.op = "update_balance"
    /\ \E v \in Workers \ {w} :
         \E held \in sess[v].flushed : held.op = "update_balance" /\ held.id = stmt.id

\* db.commit(), the flush: one statement of the unit is executed in the
\* session's transaction
TxnFlush(w) ==
    /\ sess[w].pc = "flush"
    /\ \E stmt \in sess[w].pending :
         /\ ~Locked(w, stmt)
         /\ db' = Allocate(db, stmt)
         /\ sess' = [sess EXCEPT ![w].pending = @ \ {stmt},
                                 ![w].flushed = @ \cup {Stamp(db, stmt)}]
    /\ UNCHANGED <<now, tz, response, reply>>

\* db.commit(), the COMMIT: what the session flushed becomes the committed
\* contents, all at once
TxnCommit(w) ==
    /\ sess[w].pc = "flush"
    /\ sess[w].pending = {}
    /\ db' = ApplyAll(db, sess[w].flushed)
    /\ sess' = [sess EXCEPT ![w].pc = "committed", ![w].flushed = {}]
    /\ UNCHANGED <<now, tz, response, reply>>

\* the return: balance.current_points is loaded again, the response goes
\* out and get_db closes the session
TxnRespond(w) ==
    /\ sess[w].pc = "committed"
    /\ LET balance == Head(sess[w].balance)
           points == Refreshed(Visible(w), balance)
       IN  Answer(w, balance.user_id,
                  Ok(IF sess[w].route = "/use-points" THEN UsePointsResponse(points)
                     ELSE LegacyResponse(points)))
    /\ db' = Close(db, sess[w])
    /\ UNCHANGED <<now, tz, response>>

\* a storage failure or a crash during db.commit() or the reload: the
\* exception leaves the handler, get_db closes the session, the request
\* fails
TxnFail(w) ==
    /\ sess[w].pc \in {"flush", "committed"}
    /\ Answer(w, Head(sess[w].balance).user_id, HTTPException(500, "Internal Server Error"))
    /\ db' = Close(db, sess[w])
    /\ UNCHANGED <<now, tz, response>>

\* the response goes out to the client
TxnDeliver(w) ==
    /\ reply[w] # NoReply
    /\ reply' = [reply EXCEPT ![w] = NoReply]
    /\ UNCHANGED <<db, now, tz, response, sess>>

NextTxn ==
    \E w \in Workers :
        \/ TxnGetUserBalance(w)
        \/ TxnGetPointHistory(w)
        \/ TxnQuery(w)
        \/ TxnFlush(w)
        \/ TxnCommit(w)
        \/ TxnRespond(w)
        \/ TxnFail(w)
        \/ TxnDeliver(w)

SpecTxn == InitTxn /\ [][NextTxn]_vars

\* a request that has been taken runs on to its end: the handler returns
\* or an exception leaves it (a statement that waits for a row lock gets
\* the lock or times out)
Progress(w) == TxnFlush(w) \/ TxnCommit(w) \/ TxnRespond(w) \/ TxnFail(w)

SpecTxnFair == SpecTxn /\ \A w \in Workers : WF_vars(Progress(w))

(***************************************************************************)
(* Properties of the API served one request at a time (Spec).  They are    *)
(* stated of the tables of every reachable state in which the API is       *)
(* ready for a request, and of every request it may then receive.          *)
(***************************************************************************)
Ready == response = NoResponse

HasItem(d, item_id) == \E i \in Range(d.redeemable_items) : i.id = item_id
HasBalance(d, user_id) == \E b \in Range(d.user_balance) : b.user_id = user_id
\* the stored current_points of a user with a balance row
CurrentPoints(d, user_id) ==
    (CHOOSE b \in Range(d.user_balance) : b.user_id = user_id).current_points
\* the listed price of a catalog item
Price(d, item_id) ==
    (CHOOSE i \in Range(d.redeemable_items) : i.id = item_id).points_required
Last(rows) == rows[Len(rows)]

\* what the fixed-price endpoint may answer in the current state
LegacyOutcomes(user_id, item_id) ==
    {redeem_points_legacy(db, user_id, item_id, t) : t \in Ticks}

\* what the flexible-amount endpoint may answer in the current state
UsePointsOutcomes(user_id, item_id, points) ==
    {use_points(db, UsePointsRequest(user_id, item_id, points), t, t + tz) : t \in Ticks}

\* `rows` grew from `before` by exactly one row
OneMore(before, rows) ==
    /\ Len(rows) = Len(before) + 1
    /\ SubSeq(rows, 1, Len(before)) = before

\* outcome o debits `amount` from the user and records it for (user, item)
DebitedBy(o, user_id, item_id, amount) ==
    /\ o.response.status = 200
    /\ CurrentPoints(o.db, user_id) = CurrentPoints(db, user_id) - amount
    /\ \A other \in ReqUserIds \ {user_id} :
         HasBalance(db, other) => CurrentPoints(o.db, other) = CurrentPoints(db, other)
    /\ OneMore(db.redemption_history, o.db.redemption_history)
    /\ Last(o.db.redemption_history).user_id = user_id
    /\ Last(o.db.redemption_history).item_id = item_id
    /\ Last(o.db.redemption_history).points_spent = amount
    /\ OneMore(db.point_history, o.db.point_history)
    /\ Last(o.db.point_history).user_id = user_id
    /\ Last(o.db.point_history).points = -amount

\* C1: for a user with a balance row, an existing item and an amount that
\* does not exceed current_points, a redemption (fixed-price with the item's
\* points_required, flexible with the supplied points) succeeds, decreases
\* current_points by exactly the amount and adds exactly one redemption
\* record for (user, item) with points_spent = amount and exactly one
\* history entry of the user with points = -amount.
C1_RedemptionDebits ==
    Ready =>
      \A user_id \in ReqUserIds, item_id \in ReqItemIds :
        (HasBalance(db, user_id) /\ HasItem(db, item_id)) =>
          /\ Price(db, item_id) <= CurrentPoints(db, user_id) =>
               \A o \in LegacyOutcomes(user_id, item_id) :
                   DebitedBy(o, user_id, item_id, Price(db, item_id))
          /\ \A points \in ReqPoints :
               points <= CurrentPoints(db, user_id) =>
                 \A o \in UsePointsOutcomes(user_id, item_id, points) :
                     DebitedBy(o, user_id, item_id, points)

\* a redemption that spent the whole balance has been served
C1_Witness ==
    /\ response.route = "/users/{user_id}/redeem/{item_id}"
    /\ response.result.status = 200
    /\ db.redemption_history # <<>>
    /\ Last(db.redemption_history).points_spent = 2
    /\ Last(db.point_history).points = -2
    /\ CurrentPoints(db, Last(db.redemption_history).user_id) = 0

\* outcome o refuses the request as InsufficientPoints and changes nothing
Refused(o) ==
    /\ o.response = HTTPException(400, "Not enough points")
    /\ o.db = db

\* C2: for an existing balance, an existing item and an amount above
\* current_points, both endpoints answer 400 (InsufficientPoints) and leave
\* current_points, the redemption records and the history entries as they
\* were.
C2_InsufficientRefused ==
    Ready =>
      \A user_id \in ReqUserIds, item_id \in ReqItemIds :
        (HasBalance(db, user_id) /\ HasItem(db, item_id)) =>
          /\ Price(db, item_id) > CurrentPoints(db, user_id) =>
               \A o \in LegacyOutcomes(user_id, item_id) : Refused(o)
          /\ \A points \in ReqPoints :
               points > CurrentPoints(db, user_id) =>
                 \A o \in UsePointsOutcomes(user_id, item_id, points) : Refused(o)

\* a request was refused for lack of points after an earlier redemption
C2_Witness ==
    /\ response.route = "/use-points"
    /\ response.result = HTTPException(400, "Not enough points")
    /\ db.redemption_history # <<>>

\* outcome o reports NotFound and changes nothing
NotFound(o) ==
    /\ o.response.status = 404
    /\ o.db = db

\* C3: a redemption whose item_id matches no item, or whose user_id matches
\* no balance row, answers 404 on both endpoints and leaves every table
\* unchanged, whatever the amount.
C3_UnknownNotFound ==
    Ready =>
      \A user_id \in ReqUserIds, item_id \in ReqItemIds :
        (~HasBalance(db, user_id) \/ ~HasItem(db, item_id)) =>
          /\ \A o \in LegacyOutcomes(user_id, item_id) : NotFound(o)
          /\ \A points \in ReqPoints :
               \A o \in UsePointsOutcomes(user_id, item_id, points) : NotFound(o)

\* an unknown item was reported
C3_Witness ==
    /\ response.route = "/use-points"
    /\ response.result = HTTPException(404, "Item not found")

\* C5: every redemption record created by either endpoint, for any request
\* the API accepts, has a points_spent >= 1 that equals the amount by which
\* the user's current_points was decreased.
C5_PointsSpentPositive ==
    /\ \A k \in DOMAIN db.redemption_history :
         db.redemption_history[k].points_spent >= 1
    /\ Ready =>
         \A user_id \in ReqUserIds, item_id \in ReqItemIds :
           \A o \in LegacyOutcomes(user_id, item_id)
                    \cup UNION {UsePointsOutcomes(user_id, item_id, points) :
                                  points \in ReqPoints} :
             o.response.status = 200 =>
               CurrentPoints(db, user_id) - CurrentPoints(o.db, user_id)
                 = Last(o.db.redemption_history).points_spent

\* the balance shown by a successful response of either endpoint
NewBalance(o, flexible) ==
    IF flexible THEN o.response.body.remaining_points ELSE o.response.body.new_balance

\* outcome o, if a success, returns the balance read minus the amount, which
\* is the value then stored
ReturnsNewBalance(o, flexible, user_id, amount) ==
    o.response.status = 200 =>
      /\ NewBalance(o, flexible) = CurrentPoints(db, user_id) - amount
      /\ NewBalance(o, flexible) = CurrentPoints(o.db, user_id)

\* C6: a successful redemption returns (new_balance on the fixed-price
\* endpoint, remaining_points on the flexible one) the balance read before
\* the debit minus the amount, which is the value stored for the user once
\* the request has committed.
C6_ReturnsNewBalance ==
    Ready =>
      \A user_id \in ReqUserIds, item_id \in ReqItemIds :
        /\ \A o \in LegacyOutcomes(user_id, item_id) :
             ReturnsNewBalance(o, FALSE, user_id, Price(db, item_id))
        /\ \A points \in ReqPoints :
             \A o \in UsePointsOutcomes(user_id, item_id, points) :
               ReturnsNewBalance(o, TRUE, user_id, points)

\* the flexible endpoint answered with the balance it left
C6_Witness ==
    /\ response.route = "/use-points"
    /\ response.result.status = 200
    /\ response.result.body.remaining_points = 0
    /\ CurrentPoints(db, 1) = 0

\* the ledger lines of a user that filter_type selects
Selected(user_id, filter_type) ==
    {h \in Range(db.point_history) :
        /\ h.user_id = user_id
        /\ filter_type = "earned" => h.points > 0
        /\ filter_type = "used" => h.points < 0}

\* the limits that truncate: None and 0 do not
Truncates(limit) == limit # NoInt /\ limit[1] > 0

\* the listings the history endpoint may answer with
Listings(user_id, limit, filter_type) ==
    {o.response.body : o \in get_point_history(db, user_id, limit, filter_type)}

\* the limits a listing request may carry that the database accepts
ListLimits == {limit \in ReqLimits \cup {Some(DefaultLimit)} : limit = NoInt \/ limit[1] >= 0}

\* C8: the history listing returns only entries of the requested user: with
\* filter_type earned only those with points > 0, with used only those with
\* points < 0, with none or "all" any of them (so an entry with points = 0
\* appears only in the unfiltered listing); each entry is listed once, as it
\* is stored, and the listing is ordered by date descending; when the limit
\* does not truncate, the listing holds exactly the selected entries.
C8_HistoryFiltered ==
    Ready =>
      \A user_id \in ReqUserIds, limit \in ListLimits, filter_type \in ReqFilters :
        \A listing \in Listings(user_id, limit, filter_type) :
          /\ \A k \in DOMAIN listing :
               \E h \in Selected(user_id, filter_type) :
                 listing[k] = [id |-> h.id, date |-> h.date, description |-> h.description,
                               points |-> h.points, remarks |-> h.remarks]
          /\ \A j, k \in DOMAIN listing : j < k =>
               /\ listing[j].date >= listing[k].date
               /\ listing[j].id # listing[k].id
          /\ ~Truncates(limit) =>
               {listing[k].id : k \in DOMAIN listing}
                 = {h.id : h \in Selected(user_id, filter_type)}

\* a listing of earned entries went out while the ledger holds a zero entry
\* and a used one of the same user
C8_Witness ==
    /\ response.route = "/users/{user_id}/point-history"
    /\ response.result.status = 200
    /\ Len(response.result.body) = 2
    /\ \A k \in DOMAIN response.result.body : response.result.body[k].points > 0
    /\ \E h \in Range(db.point_history) : h.user_id = 1 /\ h.points = 0
    /\ \E h \in Range(db.point_history) : h.user_id = 1 /\ h.points < 0

\* C9: with a positive limit n the listing holds exactly the min(n, total)
\* most recent of the selected entries (no entry left out is dated later
\* than a listed one); the default limit is 5; a limit of 0 or None does not
\* truncate.
C9_HistoryLimited ==
    /\ DefaultLimit = 5
    /\ Ready =>
         \A user_id \in ReqUserIds, limit \in ListLimits, filter_type \in ReqFilters :
           \A listing \in Listings(user_id, limit, filter_type) :
             LET total == Cardinality(Selected(user_id, filter_type))
                 listed == {listing[k].id : k \in DOMAIN listing}
             IN  /\ Truncates(limit) =>
                      Len(listing) = IF limit[1] < total THEN limit[1] ELSE total
                 /\ ~Truncates(limit) => Len(listing) = total
                 /\ \A h \in Selected(user_id, filter_type) :
                      h.id \notin listed =>
                        \A k \in DOMAIN listing : listing[k].date >= h.date

\* a listing cut to the default limit went out while the user has more
\* entries than that
C9_Witness ==
    /\ response.route = "/users/{user_id}/point-history"
    /\ response.result.status = 200
    /\ Len(response.result.body) = DefaultLimit
    /\ Cardinality({h \in Range(db.point_history) : h.user_id = 1}) > DefaultLimit

\* the tables d with every stored scheduled_points replaced by v
WithScheduled(d, v) ==
    [d EXCEPT !.user_balance = [k \in DOMAIN @ |-> [@[k] EXCEPT !.scheduled_points = v]]]

\* values to store as scheduled_points in the other of two states
OtherScheduled == {0, 9}

\* two outcomes with the same response and the same tables but for the
\* stored scheduled_points
AlikeButScheduled(o1, o2) ==
    /\ o1.response = o2.response
    /\ WithScheduled(o1.db, 0) = WithScheduled(o2.db, 0)

\* outcome o of a request served on tables d left every scheduled_points
\* as it was
ScheduledKept(d, o) ==
    /\ Len(o.db.user_balance) = Len(d.user_balance)
    /\ \A k \in DOMAIN d.user_balance :
         o.db.user_balance[k].scheduled_points = d.user_balance[k].scheduled_points

\* the operation Op(d), served on the current tables and on tables that
\* differ from them in scheduled_points only, answers and changes alike, and
\* writes no scheduled_points
Unaffected(Op(_)) ==
    \A v \in OtherScheduled :
      /\ AlikeButScheduled(Op(db), Op(WithScheduled(db, v)))
      /\ ScheduledKept(db, Op(db))
      /\ ScheduledKept(WithScheduled(db, v), Op(WithScheduled(db, v)))

\* C10: scheduled_points is never surfaced or computed: in two states that
\* differ only in stored scheduled_points every operation (getBalance, whose
\* response has no scheduled_points field, both redemption endpoints and the
\* other reads) returns the same response and makes the same change, and no
\* operation writes scheduled_points.
C10_ScheduledHidden ==
    Ready =>
      /\ Unaffected(read_root)
      /\ Unaffected(get_users)
      /\ Unaffected(get_redeemable_items)
      /\ \A user_id \in ReqUserIds :
           /\ Unaffected(LAMBDA d : get_user(d, user_id))
           /\ Unaffected(LAMBDA d : get_user_balance(d, user_id))
           /\ get_user_balance(db, user_id).response.status = 200 =>
                DOMAIN get_user_balance(db, user_id).response.body
                  = {"user_id", "current_points", "expiring_points"}
           /\ Unaffected(LAMBDA d : get_point_history_legacy(d, user_id))
           /\ \A limit \in ReqLimits \cup {Some(DefaultLimit)}, filter_type \in ReqFilters :
                \A v \in OtherScheduled :
                  {o.response : o \in get_point_history(db, user_id, limit, filter_type)}
                    = {o.response : o \in get_point_history(WithScheduled(db, v), user_id,
                                                            limit, filter_type)}
           /\ \A item_id \in ReqItemIds, t \in Ticks :
                /\ Unaffected(LAMBDA d : redeem_points_legacy(d, user_id, item_id, t))
                /\ \A points \in ReqPoints :
                     Unaffected(LAMBDA d : use_points(d, UsePointsRequest(user_id, item_id, points),
                                                      t, t + tz))

\* a balance went out for a user whose stored scheduled_points is not zero
C10_Witness ==
    /\ response.route = "/users/{user_id}/balance"
    /\ response.result.status = 200
    /\ \E b \in Range(db.user_balance) :
         /\ b.user_id = response.result.body.user_id
         /\ b.scheduled_points # 0
    /\ db.redemption_history # <<>>

(***************************************************************************)
(* Properties of the API served side by side (SpecTxn).                    *)
(***************************************************************************)
\* the rows of the tables a redemption writes
Rows(d) == <<d.user_balance, d.point_history, d.redemption_history>>

\* the balance rows loaded by the sessions that are about to commit
Loaded == {Head(sess[w].balance) : w \in {v \in Workers : sess[v].pc = "flush"}}

\* `rows` holds what `before` holds and one row more
OneRowMore(before, rows, row) ==
    /\ row \notin Range(before)
    /\ Range(rows) = Range(before) \cup {row}
    /\ Len(rows) = Len(before) + 1

\* tables e hold, beyond tables d, one redemption in full and nothing else:
\* one redemption record, one history entry of the same user with
\* points = -points_spent, and that user's current_points as debited by a
\* session from the balance it loaded (one of `loaded`; a debit of zero
\* writes nothing)
WholeRedemption(d, e, loaded) ==
    \E r \in Range(e.redemption_history), h \in Range(e.point_history) :
      /\ OneRowMore(d.redemption_history, e.redemption_history, r)
      /\ OneRowMore(d.point_history, e.point_history, h)
      /\ h.user_id = r.user_id
      /\ h.points = -r.points_spent
      /\ Len(e.user_balance) = Len(d.user_balance)
      /\ \A k \in DOMAIN d.user_balance :
           IF d.user_balance[k].user_id = r.user_id
           THEN /\ \/ r.points_spent = 0 /\ e.user_balance[k] = d.user_balance[k]
                   \/ \E b \in loaded :
                        /\ b.id = d.user_balance[k].id
                        /\ r.points_spent # 0
                        /\ e.user_balance[k].current_points = b.current_points - r.points_spent
                /\ [e.user_balance[k] EXCEPT !.current_points = 0, !.updated_at = 0]
                     = [d.user_balance[k] EXCEPT !.current_points = 0, !.updated_at = 0]
           ELSE e.user_balance[k] = d.user_balance[k]

\* a step leaves the committed rows alone or adds one redemption in full
WholeStep == Rows(db') = Rows(db) \/ WholeRedemption(db, db', Loaded)

\* worker w's redemption fails in this step, before its COMMIT
FailsBeforeCommit(w) ==
    /\ sess[w].pc = "flush"
    /\ reply'[w].result.status = 500

\* C4: the debit and the two audit rows of a redemption are all-or-nothing:
\* every step leaves the committed rows as they are or adds one whole
\* redemption (record, history entry and the debited balance together), and
\* a request that fails before its COMMIT, whatever it had flushed, leaves
\* the committed rows as they were and nothing of its unit behind.
C4_AllOrNothing ==
    [][/\ WholeStep
       /\ \A w \in Workers :
            FailsBeforeCommit(w) =>
              /\ Rows(db') = Rows(db)
              /\ sess'[w] = Idle]_vars

\* a redemption failed after it had flushed its INSERT into
\* redemption_history, while another one was committed: the id it took is
\* gone and no row of it is stored
C4_Witness ==
    /\ \E w \in Workers : reply[w].result.status = 500
    /\ \A w \in Workers : sess[w].pc = "idle"
    /\ Len(db.redemption_history) = 1
    /\ Len(db.point_history) = Len(TxnDb.point_history) + 1
    /\ db.next_id.redemption_history = TxnDb.next_id.redemption_history + 2

\* worker w answers a request on `route` with 200 in this step
Answers(w, route) ==
    /\ reply[w] = NoReply
    /\ reply'[w].route = route
    /\ reply'[w].result.status = 200

\* C7: a reader served while redemptions are in flight never observes a
\* half-applied one: the balance it is shown is the committed
\* current_points and the history it is shown holds exactly the committed
\* entries of the user, where the committed rows move from the state before
\* a redemption to the state after it (debited balance and both audit rows)
\* in one step.
C7_ReadersSeeCommitted ==
    [][/\ WholeStep
       /\ \A w \in Workers :
            /\ Answers(w, "/users/{user_id}/balance") =>
                 reply'[w].result.body.current_points = CurrentPoints(db, reply'[w].user_id)
            /\ Answers(w, "/users/{user_id}/point-history") =>
                 {[id |-> e.id, points |-> e.points] :
                     e \in Range(reply'[w].result.body)}
                   = {[id |-> h.id, points |-> h.points] :
                        h \in {x \in Range(db.point_history) : x.user_id = reply'[w].user_id}}
      ]_vars

\* a reader has been shown the balance of before the redemption while
\* another session has flushed the debit and one of the INSERTs and not yet
\* the other
C7_Witness ==
    \E w \in Workers, v \in Workers :
      /\ reply[w].route = "/users/{user_id}/balance"
      /\ reply[w].result.status = 200
      /\ reply[w].result.body.current_points = 2
      /\ sess[v].pc = "flush"
      /\ Head(sess[v].balance).user_id = reply[w].user_id
      /\ Cardinality(sess[v].pending) = 1
      /\ \E stmt \in sess[v].flushed : stmt.op = "update_balance" /\ stmt.current_points = 0

(***************************************************************************)
(* The two redemption endpoints against each other (Spec).                 *)
(***************************************************************************)
\* the class of an outcome: success, or the error raised
OutcomeClass(o) == IF o.response.status = 200 THEN "success" ELSE o.response.detail

\* a history entry without its remarks
Unremarked(h) == [h EXCEPT !.remarks = None]

\* the fixed-price outcome `fixed` and the flexible outcome `flexible` are
\* alike: the same class, the same balance shown and stored, the same
\* redemption records, and history entries that differ in remarks only,
\* which the flexible entry carries and the fixed-price entry does not
AlikeButRemarks(fixed, flexible) ==
    /\ OutcomeClass(fixed) = OutcomeClass(flexible)
    /\ fixed.db.user_balance = flexible.db.user_balance
    /\ fixed.db.redemption_history = flexible.db.redemption_history
    /\ Len(fixed.db.point_history) = Len(flexible.db.point_history)
    /\ \A k \in DOMAIN fixed.db.point_history :
         Unremarked(fixed.db.point_history[k]) = Unremarked(flexible.db.point_history[k])
    /\ fixed.response.status = 200 =>
         /\ fixed.response.body.new_balance = flexible.response.body.remaining_points
         /\ Last(fixed.db.point_history).remarks = None
         /\ Last(flexible.db.point_history).remarks # None

Open(w) == sess[w].pc # "idle"

\* what worker w's session holds when it opens: the balance row as committed
\* and nothing flushed
Fresh(w) ==
    /\ sess'[w].flushed = {}
    /\ Head(sess'[w].balance) \in Range(db.user_balance)

\* C12: every request works in a session of its own that is released on
\* every exit path: a worker without a request holds nothing of its last
\* session, a session opens with rows loaded from the committed tables and
\* nothing flushed, a session released without a COMMIT leaves the committed
\* rows as they were, and every open session is eventually released.
C12_SessionsReleased ==
    /\ [](\A w \in Workers : ~Open(w) => sess[w] = Idle)
    /\ [][\A w \in Workers :
            /\ (~Open(w) /\ Open(w)') => Fresh(w)
            /\ (sess[w].pc = "flush" /\ ~Open(w)') => Rows(db') = Rows(db)]_vars
    /\ \A w \in Workers : Open(w) ~> ~Open(w)

\* a session that had flushed an INSERT into point_history was released on
\* an exception while the other worker's session is open
C12_Witness ==
    \E w \in Workers, v \in Workers :
      /\ reply[w].result.status = 500
      /\ sess[w] = Idle
      /\ db.next_id.point_history > TxnDb.next_id.point_history + Len(db.point_history)
      /\ Open(v)

(***************************************************************************)
(* The order of the checks of a redemption (Spec).                         *)
(***************************************************************************)
\* outcome o of a redemption of (user_id, item_id) follows the order item,
\* balance, sufficiency, and nothing is written before all three have passed
InOrder(o, user_id, item_id) ==
    /\ ~HasItem(db, item_id) => o.response = HTTPException(404, "Item not found")
    /\ (HasItem(db, item_id) /\ ~HasBalance(db, user_id)) =>
         o.response = HTTPException(404, "User not found")
    /\ o.response = HTTPException(404, "User not found") => HasItem(db, item_id)
    /\ o.response.status = 400 => (HasItem(db, item_id) /\ HasBalance(db, user_id))
    /\ o.response.status \in {200, 400, 404}
    /\ o.response.status # 200 => o.db = db

\* C13: a redemption validates the item first, then the user's balance,
\* then sufficiency: with the item absent the outcome is ItemNotFound (also
\* when the balance is absent too), UserNotFound is reported only when the
\* item exists, InsufficientPoints only when item and balance both exist,
\* and an outcome other than success leaves the tables untouched.
C13_ValidationOrder ==
    Ready =>
      \A user_id \in ReqUserIds, item_id \in ReqItemIds :
        /\ \A o \in LegacyOutcomes(user_id, item_id) : InOrder(o, user_id, item_id)
        /\ \A points \in ReqPoints :
             \A o \in UsePointsOutcomes(user_id, item_id, points) :
               InOrder(o, user_id, item_id)

\* the fixed-price endpoint got past the item and reported the missing
\* balance, after an earlier redemption
C13_Witness ==
    /\ response.route = "/users/{user_id}/redeem/{item_id}"
    /\ response.result = HTTPException(404, "User not found")
    /\ db.redemption_history # <<>>

(***************************************************************************)
(* The flexible amount against the item's price (Spec).                    *)
(***************************************************************************)
\* the tables d with the price of item_id replaced by p
WithPrice(d, item_id, p) ==
    [d EXCEPT !.redeemable_items =
        [k \in DOMAIN @ |-> IF @[k].id = item_id THEN [@[k] EXCEPT !.points_required = p]
                            ELSE @[k]]]

\* prices to list for the item in the other of two catalog states
OtherPrices == {1, 3, 5}

\* the flexible outcome o on the current tables and the outcome `other` on
\* tables with another price for the item are the same, and a success debits
\* and records `points`
PriceBlind(o, other, user_id, points) ==
    /\ o.response = other.response
    /\ Rows(o.db) = Rows(other.db)
    /\ o.db.redeemable_items = db.redeemable_items
    /\ o.response.status = 200 =>
         /\ CurrentPoints(o.db, user_id) = CurrentPoints(db, user_id) - points
         /\ Last(o.db.redemption_history).points_spent = points
         /\ Last(o.db.point_history).points = -points

\* C14: on the flexible-amount path the debit is exactly the supplied points
\* and does not depend on the item's price: on two catalogs that differ only
\* in the item's points_required, POST /use-points with the same (user_id,
\* item_id, points) gives the same response, the same new current_points and
\* the same points_spent and history points, whether points is above, at or
\* below points_required.
C14_PriceIndependent ==
    Ready =>
      \A user_id \in ReqUserIds, item_id \in ReqItemIds, points \in ReqPoints,
         t \in Ticks, p \in OtherPrices :
        PriceBlind(use_points(db, UsePointsRequest(user_id, item_id, points), t, t + tz),
                   use_points(WithPrice(db, item_id, p),
                              UsePointsRequest(user_id, item_id, points), t, t + tz),
                   user_id, points)

\* the flexible endpoint recorded an amount that is not the item's price
C14_Witness ==
    /\ response.route = "/use-points"
    /\ response.result.status = 200
    /\ db.redemption_history # <<>>
    /\ Last(db.redemption_history).points_spent
         # Price(db, Last(db.redemption_history).item_id)

(***************************************************************************)
(* The audit tables over time (SpecTxn).                                   *)
(***************************************************************************)
\* every row of `before` is in `rows` as it was, and `rows` holds no row
\* twice
Kept(before, rows) ==
    /\ Range(before) \subseteq Range(rows)
    /\ Len(rows) = Cardinality({row.id : row \in Range(rows)})

\* the redemption of some worker is committed in this step
Commits == \E w \in Workers : sess[w].pc = "flush" /\ sess'[w].pc = "committed"

\* C15: point_history and redemption_history are append-only: whatever the
\* step (a read, a refusal, a flush, a COMMIT, a failure, a response), every
\* row stored before it is stored after it with all its fields, and the two
\* tables grow only in the step in which a redemption that passed its
\* checks is committed.
C15_AppendOnly ==
    [][/\ Kept(db.point_history, db'.point_history)
       /\ Kept(db.redemption_history, db'.redemption_history)
       /\ (\/ db'.point_history # db.point_history
           \/ db'.redemption_history # db.redemption_history) => Commits]_vars

\* two redemptions are stored, and a third request has been refused for
\* lack of points
C15_Witness ==
    /\ Len(db.redemption_history) = 2
    /\ Len(db.point_history) = Len(TxnDb.point_history) + 2
    /\ \E w \in Workers : reply[w].result.status = 400

(***************************************************************************)
(* What a request leaves alone (Spec).                                     *)
(***************************************************************************)
\* a balance row without the two fields a redemption writes
Unwritten(b) == [b EXCEPT !.current_points = 0, !.updated_at = 0]

\* `rows` holds the rows of `before`, in place, and after them only rows of
\* user_id
GrownFor(before, rows, user_id) ==
    /\ Len(rows) >= Len(before)
    /\ SubSeq(rows, 1, Len(before)) = before
    /\ \A k \in (Len(before) + 1)..Len(rows) : rows[k].user_id = user_id

\* outcome o of a redemption for user_id changed nothing but the user's own
\* current_points and updated_at and the audit rows appended for the user
Framed(o, user_id) ==
    /\ o.db.users = db.users
    /\ o.db.redeemable_items = db.redeemable_items
    /\ Len(o.db.user_balance) = Len(db.user_balance)
    /\ \A k \in DOMAIN db.user_balance :
         IF db.user_balance[k].user_id = user_id
         THEN Unwritten(o.db.user_balance[k]) = Unwritten(db.user_balance[k])
         ELSE o.db.user_balance[k] = db.user_balance[k]
    /\ GrownFor(db.point_history, o.db.point_history, user_id)
    /\ GrownFor(db.redemption_history, o.db.redemption_history, user_id)

\* C16: a redemption for user u changes nothing but u's own balance row
\* (current_points, updated_at) and the audit rows appended for u: the
\* users, the catalog, u's expiring_points and scheduled_points, the number
\* of balance rows and every other user's balance and records stay as they
\* were; the reads (users, user, balance, both history listings, catalog,
\* root) leave the whole stored state unchanged.
C16_Frame ==
    Ready =>
      /\ read_root(db).db = db
      /\ get_users(db).db = db
      /\ get_redeemable_items(db).db = db
      /\ \A user_id \in ReqUserIds :
           /\ get_user(db, user_id).db = db
           /\ get_user_balance(db, user_id).db = db
           /\ get_point_history_legacy(db, user_id).db = db
           /\ \A limit \in ReqLimits \cup {Some(DefaultLimit)}, filter_type \in ReqFilters :
                \A o \in get_point_history(db, user_id, limit, filter_type) : o.db = db
           /\ \A item_id \in ReqItemIds :
                /\ \A o \in LegacyOutcomes(user_id, item_id) : Framed(o, user_id)
                /\ \A points \in ReqPoints :
                     \A o \in UsePointsOutcomes(user_id, item_id, points) :
                       Framed(o, user_id)

\* a redemption has written the balance of one user while the row of the
\* other user and the first user's expiring_points and scheduled_points are
\* as seeded
C16_Witness ==
    /\ response.route = "/use-points"
    /\ response.result.status = 200
    /\ db.user_balance[1].updated_at # SeedBalances[1].updated_at
    /\ Unwritten(db.user_balance[1]) = Unwritten(SeedBalances[1])
    /\ db.user_balance[2] = SeedBalances[2]

(***************************************************************************)
(* Balances against the ledger when requests interleave (SpecTxn).         *)
(***************************************************************************)
\* the sum of f[x] over the members x of S
RECURSIVE Sum(_, _)
Sum(f, S) ==
    IF S = {} THEN 0
    ELSE LET x == CHOOSE y \in S : TRUE
         IN  f[x] + Sum(f, S \ {x})

\* the redemption records stored for a user, and the history entries added
\* for the user since the workers started
RecordsOf(user_id) == {r \in Range(db.redemption_history) : r.user_id = user_id}
EntriesOf(user_id) ==
    {h \in Range(db.point_history) \ Range(TxnDb.point_history) : h.user_id = user_id}

\* what the user's records say was spent, what the added entries sum to
Spent(user_id) == Sum([r \in RecordsOf(user_id) |-> r.points_spent], RecordsOf(user_id))
Entered(user_id) == Sum([h \in EntriesOf(user_id) |-> h.points], EntriesOf(user_id))

\* the users with a balance row
Holders == {b.user_id : b \in Range(db.user_balance)}

\* C17: no overdraft: with balances that start non-negative and amounts
\* that are non-negative, current_points is never negative, and the
\* redemptions that succeeded for a user never spent more than the user
\* had: two redemptions whose amounts together exceed the balance never
\* both succeed, also when each reads the balance and passes the check
\* before the other commits.
C17_NoOverdraft ==
    \A user_id \in Holders :
      /\ CurrentPoints(db, user_id) >= 0
      /\ Spent(user_id) <= CurrentPoints(TxnDb, user_id)

\* C18: ledger conservation: in every committed state, for each user,
\* current_points is the initial current_points minus the sum of
\* points_spent over the redemption records added for the user, which is
\* the initial current_points plus the sum of points over the history
\* entries added for the user.
C18_LedgerConserved ==
    \A user_id \in Holders :
      /\ CurrentPoints(db, user_id) = CurrentPoints(TxnDb, user_id) - Spent(user_id)
      /\ CurrentPoints(db, user_id) = CurrentPoints(TxnDb, user_id) + Entered(user_id)

(***************************************************************************)
(* The direction of a redemption (Spec).                                   *)
(***************************************************************************)
\* outcome o raised no balance and, where it succeeded, entered its points
\* as spent
Downward(o) ==
    /\ \A b \in Range(db.user_balance) :
         CurrentPoints(o.db, b.user_id) <= b.current_points
    /\ o.response.status = 200 => Last(o.db.point_history).points <= 0

\* C19: no operation increases a balance: for any catalog item on the
\* fixed-price endpoint and any integer points on POST /use-points, every
\* user's current_points after the request is at most what it was before,
\* and the history entry a redemption writes has points <= 0.
C19_NeverIncreases ==
    Ready =>
      \A user_id \in ReqUserIds, item_id \in ReqItemIds :
        /\ \A o \in LegacyOutcomes(user_id, item_id) : Downward(o)
        /\ \A points \in ReqPoints :
             \A o \in UsePointsOutcomes(user_id, item_id, points) : Downward(o)

=============================================================================
